---- MODULE Spec2Model ----
(***************************************************************************)
(* Model of src/app.py: the prediction game's store (players, matches,     *)
(* predictions), the ingestion of fixtures, the submission of predictions, *)
(* the scoring pass and the three standings queries, on both storage       *)
(* backends (SQLite and PostgreSQL).                                       *)
(***************************************************************************)
EXTENDS Integers, Sequences, FiniteSets, TLC

\* ------------------------------------------------------------ bounds
\* how many players of the roster are in the players table
NumPlayers == 3
\* how many fixtures the remote competition holds
NumFixtures == 2
\* how many ids the matches.id and predictions.id sequences may hand out together
MaxIds == 3

\* ------------------------------------------------------------ constants
\* range(1, 39): the game weeks of a season
LastWeek == 38

\* SQL NULL of a text column
Null == "NULL"
\* SQL NULL / Python None of an integer column: <<>>, a value v: <<v>>
None == <<>>
Some(v) == <<v>>

Choices == {"HOME", "AWAY", "DRAW"}

\* the roster of add_default_players, in insertion order (ids 1, 2, ...)
Roster == <<"Biniam A", "Biniam G", "Biniam E", "Abel", "Siem", "Kubrom">>

\* the bytes of each name, as the ORDER BY player_name compares them
NameCodes(name) ==
  CASE name = "Biniam A" -> <<66, 105, 110, 105, 97, 109, 32, 65>>
    [] name = "Biniam G" -> <<66, 105, 110, 105, 97, 109, 32, 71>>
    [] name = "Biniam E" -> <<66, 105, 110, 105, 97, 109, 32, 69>>
    [] name = "Abel"     -> <<65, 98, 101, 108>>
    [] name = "Siem"     -> <<83, 105, 101, 109>>
    [] name = "Kubrom"   -> <<75, 117, 98, 114, 111, 109>>

RECURSIVE LexLess(_, _)
\* a < b, byte by byte, a proper prefix being smaller
LexLess(a, b) ==
  IF b = <<>> THEN FALSE
  ELSE IF a = <<>> THEN TRUE
  ELSE IF Head(a) # Head(b) THEN Head(a) < Head(b)
  ELSE LexLess(Tail(a), Tail(b))

NameLess(n1, n2) == LexLess(NameCodes(n1), NameCodes(n2))

\* ------------------------------------------------------------ state
VARIABLES
  use_postgres,  \* Database.use_postgres: TRUE PostgreSQL, FALSE SQLite
  players,       \* table players: rows [id, name]
  matches,       \* table matches: rows [id, api_match_id, game_week, home_score, away_score, result, status]
  predictions,   \* table predictions: rows [id, player_id, match_id, prediction, points_earned]
  nextMatchId,   \* next value of the matches.id sequence
  nextPredId,    \* next value of the predictions.id sequence
  submitted,     \* history: (player_id, match_id) -> choice of the latest committed submission
  last,          \* history: the operation that ran last, with its arguments and return value,
                 \* and how many connections it opened (get_connection) and closed (conn.close)
  rc,            \* an in-flight calculate_points_for_gameweek (concurrent specification)
  sb             \* an in-flight submit_predictions (concurrent specification)

vars == <<use_postgres, players, matches, predictions, nextMatchId, nextPredId,
          submitted, last, rc, sb>>

PlayerIds == 1..NumPlayers
GameWeeks == {1, LastWeek}

RcIdle == [pc |-> "idle"]
SbIdle == [pc |-> "idle"]

\* the state after Database() and add_default_players()
Init ==
  /\ NumPlayers <= Len(Roster)
  /\ use_postgres \in BOOLEAN
  /\ players = {[id |-> i, name |-> Roster[i]] : i \in PlayerIds}
  /\ matches = {}
  /\ predictions = {}
  /\ nextMatchId = 1
  /\ nextPredId = 1
  /\ submitted = <<>>
  /\ last = [op |-> "init"]
  /\ rc = RcIdle
  /\ sb = SbIdle

\* ------------------------------------------------------------ ingestion
\* the remote competition: fixture f (its api id) is played in one matchday
FixtureWeek(f) == IF f % 2 = 1 THEN 1 ELSE LastWeek

\* what the remote may report for a fixture: its status and full-time score
ApiPayloads ==
  { [status |-> "SCHEDULED", fullTime |-> None],
    [status |-> "FINISHED", fullTime |-> <<1, 0>>],
    [status |-> "FINISHED", fullTime |-> <<0, 1>>],
    [status |-> "FINISHED", fullTime |-> <<1, 1>>] }

\* the fixtures of a matchday, in the order of the response
RECURSIVE FixturesFrom(_, _)
FixturesFrom(f, matchday) ==
  IF f > NumFixtures THEN <<>>
  ELSE (IF FixtureWeek(f) = matchday THEN <<f>> ELSE <<>>) \o FixturesFrom(f + 1, matchday)

\* result derived from the full-time score
DeriveResult(fullTime) ==
  IF fullTime = None THEN Null
  ELSE IF fullTime[1] > fullTime[2] THEN "HOME"
  ELSE IF fullTime[2] > fullTime[1] THEN "AWAY"
  ELSE "DRAW"

MatchRow(id, api_id, matchday, pay) ==
  [id |-> id, api_match_id |-> api_id, game_week |-> matchday,
   home_score |-> IF pay.fullTime = None THEN None ELSE Some(pay.fullTime[1]),
   away_score |-> IF pay.fullTime = None THEN None ELSE Some(pay.fullTime[2]),
   result |-> DeriveResult(pay.fullTime), status |-> pay.status]

\* PostgreSQL: INSERT ... ON CONFLICT (api_match_id) DO UPDATE SET scores, result, status
UpsertPostgres(ms, id, api_id, matchday, pay) ==
  LET new == MatchRow(id, api_id, matchday, pay)
  IN IF \E m \in ms : m.api_match_id = api_id
     THEN {IF m.api_match_id = api_id
           THEN [m EXCEPT !.home_score = new.home_score, !.away_score = new.away_score,
                          !.result = new.result, !.status = new.status]
           ELSE m : m \in ms}
     ELSE ms \cup {new}

\* SQLite: INSERT OR REPLACE: the conflicting row is deleted, a new row (new id) inserted
UpsertSqlite(ms, id, api_id, matchday, pay) ==
  {m \in ms : m.api_match_id # api_id} \cup {MatchRow(id, api_id, matchday, pay)}

RECURSIVE SaveLoop(_, _, _, _, _, _)
\* the for loop of save_matches_to_db: one upsert per fixture, each drawing an id
SaveLoop(ms, id, fs, pay, matchday, pg) ==
  IF fs = <<>> THEN ms
  ELSE LET f == Head(fs)
           ms2 == IF pg THEN UpsertPostgres(ms, id, f, matchday, pay[f])
                        ELSE UpsertSqlite(ms, id, f, matchday, pay[f])
       IN SaveLoop(ms2, id + 1, Tail(fs), pay, matchday, pg)

Idle == rc.pc = "idle" /\ sb.pc = "idle"

\* the ids the two sequences have handed out so far
IssuedIds == (nextMatchId - 1) + (nextPredId - 1)

\* save_matches_to_db(matchday, db), the fetch having succeeded
SaveMatches(matchday) ==
  LET fs == FixturesFrom(1, matchday)
  IN /\ Idle
     /\ IssuedIds + Len(fs) <= MaxIds
     /\ \E pay \in [{fs[i] : i \in 1..Len(fs)} -> ApiPayloads] :
          matches' = SaveLoop(matches, nextMatchId, fs, pay, matchday, use_postgres)
     /\ nextMatchId' = nextMatchId + Len(fs)
     /\ last' = [op |-> "ingest", ok |-> TRUE, opened |-> 1, closed |-> 1]
     /\ UNCHANGED <<use_postgres, players, predictions, nextPredId, submitted, rc, sb>>

\* save_matches_to_db(matchday, db), the fetch having failed: nothing is stored
SaveMatchesFailed(matchday) ==
  /\ Idle
  /\ last' = [op |-> "ingest", ok |-> FALSE, opened |-> 0, closed |-> 0]
  /\ UNCHANGED <<use_postgres, players, matches, predictions, nextMatchId, nextPredId,
                 submitted, rc, sb>>

\* ------------------------------------------------------------ submission
\* the forms a request may carry: prediction_<match_id> = choice for matches that the
\* predictions page of the game week shows, one or two of them, in any order
Forms(game_week) ==
  LET ids == {m.id : m \in {x \in matches : x.game_week = game_week}}
  IN {<<<<m, c>>>> : m \in ids, c \in Choices}
     \cup {<<<<e[1], e[3]>>, <<e[2], e[4]>>>> :
             e \in {x \in ids \X ids \X Choices \X Choices : x[1] # x[2]}}

PredictionRow(id, player_id, match_id, value) ==
  [id |-> id, player_id |-> player_id, match_id |-> match_id, prediction |-> value,
   points_earned |-> 0]

\* a submission that only inserts, the pair's earlier row left in place
InsertPrediction(preds, id, player_id, match_id, value) ==
  preds \cup {PredictionRow(id, player_id, match_id, value)}

\* DELETE ... WHERE player_id, match_id then INSERT (PostgreSQL); INSERT OR REPLACE
\* (SQLite): the pair's row, if any, goes and a new row with a new id and 0 points comes
ReplacePrediction(preds, id, player_id, match_id, value) ==
  {p \in preds : ~(p.player_id = player_id /\ p.match_id = match_id)}
    \cup {PredictionRow(id, player_id, match_id, value)}

\* PostgreSQL enforces REFERENCES players(id), matches(id); SQLite, as opened, does not
ForeignKeysHold(pg, pls, ms, player_id, match_id) ==
  pg => /\ \E pl \in pls : pl.id = player_id
        /\ \E m \in ms : m.id = match_id

RECURSIVE SubmitLoop(_, _, _, _, _, _, _)
\* the for loop of submit_predictions; a failing INSERT raises and nothing is committed
\* (the sequence value it drew is spent all the same)
SubmitLoop(preds, id, form, player_id, pg, pls, ms) ==
  IF form = <<>> THEN [ok |-> TRUE, preds |-> preds, id |-> id]
  ELSE LET match_id == Head(form)[1]
           value == Head(form)[2]
       IN IF ForeignKeysHold(pg, pls, ms, player_id, match_id)
          THEN SubmitLoop(ReplacePrediction(preds, id, player_id, match_id, value),
                          id + 1, Tail(form), player_id, pg, pls, ms)
          ELSE [ok |-> FALSE, preds |-> preds, id |-> id + 1]

FormPairs(player_id, form) == {<<player_id, form[i][1]>> : i \in 1..Len(form)}

FormChoice(form, match_id) ==
  LET i == CHOOSE j \in 1..Len(form) : form[j][1] = match_id IN form[i][2]

\* the history of committed submissions after one more
Record(sub, player_id, form) ==
  [k \in DOMAIN sub \cup FormPairs(player_id, form) |->
     IF k \in FormPairs(player_id, form) THEN FormChoice(form, k[2]) ELSE sub[k]]

HasRow(preds, pair) == \E p \in preds : p.player_id = pair[1] /\ p.match_id = pair[2]

\* submit_predictions, start to commit
SubmitPredictions(player_id, form) ==
  LET r == SubmitLoop(predictions, nextPredId, form, player_id, use_postgres, players, matches)
  IN /\ Idle
     /\ IssuedIds + Len(form) <= MaxIds
     /\ predictions' = IF r.ok THEN r.preds ELSE predictions
     /\ nextPredId' = IF use_postgres THEN r.id
                      ELSE IF r.ok THEN r.id ELSE nextPredId
     /\ submitted' = IF r.ok THEN Record(submitted, player_id, form) ELSE submitted
     /\ last' = [op |-> "submit", ok |-> r.ok,
                 repeat |-> \A pair \in FormPairs(player_id, form) : HasRow(predictions, pair),
                 changed |-> \E p \in predictions :
                               /\ <<p.player_id, p.match_id>> \in FormPairs(player_id, form)
                               /\ p.prediction # FormChoice(form, p.match_id),
                 opened |-> 1, closed |-> IF r.ok THEN 1 ELSE 0]
     /\ UNCHANGED <<use_postgres, players, matches, nextMatchId, rc, sb>>

\* ------------------------------------------------------------ scoring
\* the selection without its game week condition
PredictionsOfAllWeeks(preds, ms, game_week) ==
  {[id |-> p.id, prediction |-> p.prediction, result |-> m.result] :
     <<p, m>> \in {pm \in preds \X ms : /\ pm[1].match_id = pm[2].id
                                        /\ pm[2].result # Null}}

\* SELECT p.id, p.prediction, m.result ... JOIN matches m ON p.match_id = m.id
\* WHERE m.game_week = ? AND m.result IS NOT NULL
PredictionsToUpdate(preds, ms, game_week) ==
  {[id |-> p.id, prediction |-> p.prediction, result |-> m.result] :
     <<p, m>> \in {pm \in preds \X ms : /\ pm[1].match_id = pm[2].id
                                        /\ pm[2].game_week = game_week
                                        /\ pm[2].result # Null}}

\* the comparison inverted
PointsForMiss(prediction, actual_result) == IF prediction # actual_result THEN 1 ELSE 0

\* points = 1 if prediction == actual_result else 0
PointsFor(prediction, actual_result) == IF prediction = actual_result THEN 1 ELSE 0

\* an UPDATE that adds to the stored points instead of setting them
AddPoints(p, points) == [p EXCEPT !.points_earned = @ + points]

\* UPDATE predictions SET points_earned = ? WHERE id = ?
UpdatePoints(p, points) == [p EXCEPT !.points_earned = points]

\* the loop of UPDATEs over the selected rows, and the commit
CalculatePoints(preds, ms, game_week) ==
  LET rows == PredictionsToUpdate(preds, ms, game_week)
  IN {IF \E r \in rows : r.id = p.id
      THEN LET r == CHOOSE x \in rows : x.id = p.id
           IN UpdatePoints(p, PointsFor(r.prediction, r.result))
      ELSE p : p \in preds}

\* calculate_points_for_gameweek(game_week), start to commit
CalculatePointsForGameweek(game_week) ==
  /\ Idle
  /\ predictions' = CalculatePoints(predictions, matches, game_week)
  /\ last' = [op |-> "recompute", week |-> game_week,
              count |-> Cardinality(PredictionsToUpdate(predictions, matches, game_week)),
              again |-> (last.op = "recompute" /\ last.week = game_week),
              opened |-> 1, closed |-> 1]
  /\ UNCHANGED <<use_postgres, players, matches, nextMatchId, nextPredId, submitted, rc, sb>>

\* ------------------------------------------------------------ standings
\* FROM players pl LEFT JOIN predictions p ON pl.id = p.player_id
\*                 LEFT JOIN matches m ON p.match_id = m.id
\* one row per (player, prediction), the match's game week NULL when no match has the
\* prediction's match_id; a player without predictions gives one row of NULLs
JoinedRows(pls, preds, ms) ==
  UNION {
    LET mine == {p \in preds : p.player_id = pl.id}
    IN IF mine = {}
       THEN {[player_id |-> pl.id, player_name |-> pl.name, pred_id |-> None,
              points_earned |-> None, game_week |-> None]}
       ELSE {[player_id |-> pl.id, player_name |-> pl.name, pred_id |-> Some(p.id),
              points_earned |-> Some(p.points_earned),
              game_week |-> IF \E m \in ms : m.id = p.match_id
                            THEN Some((CHOOSE m \in ms : m.id = p.match_id).game_week)
                            ELSE None] : p \in mine}
    : pl \in pls}

\* WHERE m.game_week = ? OR m.game_week IS NULL
WeeklyWhere(row, game_week) ==
  row.game_week = Some(game_week) \/ row.game_week = None

\* the cumulative condition with < for <=
CumulativeWhereBefore(row, game_week) ==
  (row.game_week # None /\ row.game_week[1] < game_week) \/ row.game_week = None

\* WHERE m.game_week <= ? OR m.game_week IS NULL
CumulativeWhere(row, game_week) ==
  (row.game_week # None /\ row.game_week[1] <= game_week) \/ row.game_week = None

RECURSIVE SumPoints(_)
\* COALESCE(SUM(p.points_earned), 0): NULLs add nothing
SumPoints(rows) ==
  IF rows = {} THEN 0
  ELSE LET r == CHOOSE x \in rows : TRUE
       IN (IF r.points_earned = None THEN 0 ELSE r.points_earned[1]) + SumPoints(rows \ {r})

\* GROUP BY pl.id, pl.name: one group per player that has a row left after the WHERE
GroupByPlayer(rows) ==
  {[player_name |-> (CHOOSE r \in rows : r.player_id = id).player_name,
    points |-> SumPoints({r \in rows : r.player_id = id})] :
     id \in {r.player_id : r \in rows}}

\* the ordering with the points ascending
OrderBeforeAscending(a, b) ==
  \/ a.points < b.points
  \/ a.points = b.points /\ NameLess(a.player_name, b.player_name)

\* ORDER BY points DESC, player_name: a comes before b
OrderBefore(a, b) ==
  \/ a.points > b.points
  \/ a.points = b.points /\ NameLess(a.player_name, b.player_name)

RECURSIVE OrderBy(_)
OrderBy(groups) ==
  IF groups = {} THEN <<>>
  ELSE LET first == CHOOSE g \in groups : \A o \in groups \ {g} : OrderBefore(g, o)
       IN <<first>> \o OrderBy(groups \ {first})

WeeklyQuery(pls, preds, ms, game_week) ==
  OrderBy(GroupByPlayer({r \in JoinedRows(pls, preds, ms) : WeeklyWhere(r, game_week)}))

CumulativeQuery(pls, preds, ms, game_week) ==
  OrderBy(GroupByPlayer({r \in JoinedRows(pls, preds, ms) : CumulativeWhere(r, game_week)}))

\* get_overall_leaderboard: the same join and grouping, with no WHERE
OverallQuery(pls, preds, ms) ==
  OrderBy(GroupByPlayer(JoinedRows(pls, preds, ms)))

\* get_weekly_results(game_week): the scoring pass, committed, then the two queries
GetWeeklyResults(game_week) ==
  /\ Idle
  /\ predictions' = CalculatePoints(predictions, matches, game_week)
  /\ last' = [op |-> "weekly", week |-> game_week,
              weekly |-> WeeklyQuery(players, predictions', matches, game_week),
              cumulative |-> CumulativeQuery(players, predictions', matches, game_week),
              opened |-> 2, closed |-> 2]
  /\ UNCHANGED <<use_postgres, players, matches, nextMatchId, nextPredId, submitted, rc, sb>>

RECURSIVE CalculateAllWeeks(_, _, _)
\* for game_week in range(1, 39): db.calculate_points_for_gameweek(game_week)
CalculateAllWeeks(preds, ms, game_week) ==
  IF game_week > LastWeek THEN preds
  ELSE CalculateAllWeeks(CalculatePoints(preds, ms, game_week), ms, game_week + 1)

\* leaderboard(): score every game week, then get_overall_leaderboard()
Leaderboard ==
  /\ Idle
  /\ predictions' = CalculateAllWeeks(predictions, matches, 1)
  /\ last' = [op |-> "leaderboard",
              results |-> OverallQuery(players, predictions', matches),
              opened |-> LastWeek + 1, closed |-> LastWeek + 1]
  /\ UNCHANGED <<use_postgres, players, matches, nextMatchId, nextPredId, submitted, rc, sb>>

Next ==
  \/ \E w \in GameWeeks : SaveMatches(w)
  \/ \E w \in GameWeeks : SaveMatchesFailed(w)
  \/ \E player_id \in PlayerIds : \E w \in GameWeeks : \E form \in Forms(w) :
        SubmitPredictions(player_id, form)
  \/ \E w \in GameWeeks : CalculatePointsForGameweek(w)
  \/ \E w \in GameWeeks : GetWeeklyResults(w)
  \/ Leaderboard

Spec == Init /\ [][Next]_vars

\* ------------------------------------------------------------ concurrent requests
\* One scoring pass and one submission, each on a connection of its own, statement by
\* statement. A connection reads committed rows only. PostgreSQL (READ COMMITTED): a
\* row updated or deleted by an open transaction is locked, and a statement of the
\* other transaction on that row waits for the commit. SQLite: the first writing
\* statement of a transaction takes the database's write lock; the other connection's
\* writing statement waits for it, and raises "database is locked" when the wait
\* times out. (A cycle of row locks needs two rows on each side, more rows than the
\* bounds hold.)
InFlight(pc) == pc \in {"open", "selected", "writing"}

\* the SELECT and fetchall of calculate_points_for_gameweek
RcSelect(game_week) ==
  /\ rc.pc = "idle"
  /\ rc' = [pc |-> "selected", week |-> game_week,
            todo |-> PredictionsToUpdate(predictions, matches, game_week),
            writes |-> {},
            count |-> Cardinality(PredictionsToUpdate(predictions, matches, game_week)),
            overlap |-> sb.pc = "writing"]
  /\ UNCHANGED <<use_postgres, players, matches, predictions, nextMatchId, nextPredId,
                 submitted, last, sb>>

\* rows the submission's open transaction has deleted
SbLocked == IF InFlight(sb.pc) THEN sb.deleted ELSE {}
\* rows the scoring pass's open transaction has updated
RcLocked == IF InFlight(rc.pc) THEN {w[1] : w \in rc.writes} ELSE {}

\* one UPDATE predictions SET points_earned = ? WHERE id = ? of the loop: it changes
\* the row if a committed row has the id still, and no row otherwise
RcUpdate ==
  /\ rc.pc \in {"selected", "writing"}
  /\ \E r \in rc.todo :
       /\ IF use_postgres THEN r.id \notin SbLocked ELSE sb.pc # "writing"
       /\ rc' = [rc EXCEPT !.pc = "writing", !.todo = @ \ {r},
                           !.writes = IF \E p \in predictions : p.id = r.id
                                      THEN @ \cup {<<r.id, PointsFor(r.prediction, r.result)>>}
                                      ELSE @]
  /\ UNCHANGED <<use_postgres, players, matches, predictions, nextMatchId, nextPredId,
                 submitted, last, sb>>

\* SQLite: the pass's first UPDATE finds the database locked by the submission, and raises
RcBusy ==
  /\ ~use_postgres
  /\ rc.pc = "selected" /\ rc.todo # {}
  /\ sb.pc = "writing"
  /\ rc' = [rc EXCEPT !.pc = "failed"]
  /\ UNCHANGED <<use_postgres, players, matches, predictions, nextMatchId, nextPredId,
                 submitted, last, sb>>

\* conn.commit() of calculate_points_for_gameweek
RcCommit ==
  /\ rc.pc \in {"selected", "writing"}
  /\ rc.todo = {}
  /\ predictions' = {IF \E w \in rc.writes : w[1] = p.id
                     THEN UpdatePoints(p, (CHOOSE w \in rc.writes : w[1] = p.id)[2])
                     ELSE p : p \in predictions}
  /\ rc' = [rc EXCEPT !.pc = "done"]
  /\ UNCHANGED <<use_postgres, players, matches, nextMatchId, nextPredId, submitted, last, sb>>

\* submit_predictions: the request arrives and the connection is opened
SbBegin(player_id, form) ==
  /\ sb.pc = "idle"
  /\ IssuedIds + Len(form) <= MaxIds
  /\ sb' = [pc |-> "open", player_id |-> player_id, form |-> form, whole |-> form,
            stmt |-> "delete", deleted |-> {}, inserted |-> {}, overlap |-> FALSE]
  /\ UNCHANGED <<use_postgres, players, matches, predictions, nextMatchId, nextPredId,
                 submitted, last, rc>>

\* the committed rows of the pair the form's next entry is for
PairRows == {p.id : p \in {x \in predictions : /\ x.player_id = sb.player_id
                                               /\ x.match_id = Head(sb.form)[1]}}

\* the pass has read and not committed yet: a statement of the submission now falls
\* between the pass's read and its commit (sb.overlap; rc.overlap: the pass reads
\* between a statement of the submission and its commit)
ReadNotCommitted == rc.pc \in {"selected", "writing"}

\* PostgreSQL: DELETE FROM predictions WHERE player_id = %s AND match_id = %s
SbDelete ==
  /\ use_postgres
  /\ sb.pc \in {"open", "writing"} /\ sb.form # <<>> /\ sb.stmt = "delete"
  /\ PairRows \cap RcLocked = {}
  /\ sb' = [sb EXCEPT !.pc = "writing", !.stmt = "insert", !.deleted = @ \cup PairRows,
                      !.overlap = @ \/ ReadNotCommitted]
  /\ UNCHANGED <<use_postgres, players, matches, predictions, nextMatchId, nextPredId,
                 submitted, last, rc>>

\* PostgreSQL: INSERT INTO predictions (player_id, match_id, prediction, updated_at)
SbInsert ==
  /\ use_postgres
  /\ sb.pc = "writing" /\ sb.form # <<>> /\ sb.stmt = "insert"
  /\ sb' = IF ForeignKeysHold(TRUE, players, matches, sb.player_id, Head(sb.form)[1])
           THEN [sb EXCEPT !.stmt = "delete", !.form = Tail(@),
                           !.inserted = @ \cup {PredictionRow(nextPredId, sb.player_id,
                                                              Head(sb.form)[1], Head(sb.form)[2])}]
           ELSE [sb EXCEPT !.pc = "failed"]
  /\ nextPredId' = nextPredId + 1
  /\ UNCHANGED <<use_postgres, players, matches, predictions, nextMatchId, submitted, last, rc>>

\* SQLite: INSERT OR REPLACE INTO predictions (player_id, match_id, prediction, updated_at)
SbReplace ==
  /\ ~use_postgres
  /\ sb.pc \in {"open", "writing"} /\ sb.form # <<>>
  /\ rc.pc # "writing"
  /\ sb' = [sb EXCEPT !.pc = "writing", !.form = Tail(@), !.deleted = @ \cup PairRows,
                      !.overlap = @ \/ ReadNotCommitted,
                      !.inserted = @ \cup {PredictionRow(nextPredId, sb.player_id,
                                                         Head(sb.form)[1], Head(sb.form)[2])}]
  /\ nextPredId' = nextPredId + 1
  /\ UNCHANGED <<use_postgres, players, matches, predictions, nextMatchId, submitted, last, rc>>

\* SQLite: the submission's first statement finds the database locked by the pass, and raises
SbBusy ==
  /\ ~use_postgres
  /\ sb.pc = "open" /\ sb.form # <<>>
  /\ rc.pc = "writing"
  /\ sb' = [sb EXCEPT !.pc = "failed"]
  /\ UNCHANGED <<use_postgres, players, matches, predictions, nextMatchId, nextPredId,
                 submitted, last, rc>>

\* conn.commit() of submit_predictions
SbCommit ==
  /\ sb.pc = "writing" /\ sb.form = <<>>
  /\ predictions' = {p \in predictions : p.id \notin sb.deleted} \cup sb.inserted
  /\ submitted' = Record(submitted, sb.player_id, sb.whole)
  /\ sb' = [sb EXCEPT !.pc = "done"]
  /\ UNCHANGED <<use_postgres, players, matches, nextMatchId, nextPredId, last, rc>>

\* ingestions and whole submissions first, then one pass and one submission interleaved
NextConcurrent ==
  \/ \E w \in GameWeeks : SaveMatches(w)
  \/ \E player_id \in PlayerIds : \E w \in GameWeeks : \E form \in Forms(w) :
        SubmitPredictions(player_id, form)
  \/ \E w \in GameWeeks : RcSelect(w)
  \/ RcUpdate
  \/ RcBusy
  \/ RcCommit
  \/ \E player_id \in PlayerIds : \E w \in GameWeeks : \E form \in Forms(w) :
        SbBegin(player_id, form)
  \/ SbDelete
  \/ SbInsert
  \/ SbReplace
  \/ SbBusy
  \/ SbCommit

SpecConcurrent == Init /\ [][NextConcurrent]_vars

\* ------------------------------------------------------------ requests of any week, pages
\* /results/weekly/<int:game_week> takes any non-negative integer, and the store's
\* methods any value: the nearest weeks on either side of range(1, 39)
WeeksOutOfRange == {0, LastWeek + 1}

\* /predictions/<int:player_id>/... and /summary/<int:player_id>/... take any
\* non-negative integer: the players' ids, and the first id no player has
PagePlayerIds == PlayerIds \cup {NumPlayers + 1}

\* predictions(player_id, game_week). The handler opens a connection and looks the
\* player up; without a player it redirects. Else get_matches_by_gameweek opens and
\* closes a connection of its own; with no match of the week stored and an api object
\* (api: an API key is configured), api.save_matches_to_db is looked up, which
\* FootballAPI does not have (the function is defined at module level), and the
\* AttributeError ends the handler. Else the handler reads the predictions, closes
\* its connection and renders the page.
Predictions(player_id, game_week, api) ==
  LET player == {pl \in players : pl.id = player_id}
      shown == {m \in matches : m.game_week = game_week}
  IN /\ Idle
     /\ last' = IF player = {}
                THEN [op |-> "predictions", outcome |-> "redirect", opened |-> 1, closed |-> 0]
                ELSE IF shown = {} /\ api
                THEN [op |-> "predictions", outcome |-> "error", opened |-> 2, closed |-> 1]
                ELSE [op |-> "predictions", outcome |-> "page", opened |-> 2, closed |-> 2]
     /\ UNCHANGED <<use_postgres, players, matches, predictions, nextMatchId, nextPredId,
                    submitted, rc, sb>>

\* prediction_summary(player_id, game_week): a connection, the player's lookup, the
\* redirect without a player; else the predictions' query, conn.close() and the page
PredictionSummary(player_id, game_week) ==
  LET player == {pl \in players : pl.id = player_id}
  IN /\ Idle
     /\ last' = IF player = {}
                THEN [op |-> "summary", outcome |-> "redirect", opened |-> 1, closed |-> 0]
                ELSE [op |-> "summary", outcome |-> "page", opened |-> 1, closed |-> 1]
     /\ UNCHANGED <<use_postgres, players, matches, predictions, nextMatchId, nextPredId,
                    submitted, rc, sb>>

\* the requests of Spec, the scoring pass and the standings of a game week outside the
\* season, and the two pages of a player
NextRequests ==
  \/ Next
  \/ \E w \in WeeksOutOfRange : CalculatePointsForGameweek(w)
  \/ \E w \in WeeksOutOfRange : GetWeeklyResults(w)
  \/ \E player_id \in PagePlayerIds : \E w \in GameWeeks : \E api \in BOOLEAN :
        Predictions(player_id, w, api)
  \/ \E player_id \in PagePlayerIds : \E w \in GameWeeks : PredictionSummary(player_id, w)

SpecRequests == Init /\ [][NextRequests]_vars

\* ------------------------------------------------------------ properties
\* the match a prediction is joined to
HasMatch(p) == \E m \in matches : m.id = p.match_id
MatchOf(p) == CHOOSE m \in matches : m.id = p.match_id

\* p is among the rows a scoring pass of game_week evaluates
Scoreable(p, game_week) ==
  HasMatch(p) /\ MatchOf(p).game_week = game_week /\ MatchOf(p).result # Null

\* C1: right after calculate_points_for_gameweek(w), every prediction whose match is in
\* game week w and has a result has 1 point if its choice is that result, 0 otherwise
C1_PointsCorrectAfterRecompute ==
  last.op = "recompute" =>
    \A p \in predictions :
      Scoreable(p, last.week) =>
        p.points_earned = (IF p.prediction = MatchOf(p).result THEN 1 ELSE 0)

\* a pass that has scored one prediction 1 and another 0, both stored as 0 before
C1_Witness ==
  /\ last.op = "recompute"
  /\ last.count = 2
  /\ \E p \in predictions : Scoreable(p, last.week) /\ p.points_earned = 1
  /\ \E p \in predictions : Scoreable(p, last.week) /\ p.points_earned = 0

\* C2: a second calculate_points_for_gameweek(w) right after the first leaves every
\* prediction's points as the first left them and returns the same count
C2_RecomputeIdempotent ==
  [][(last'.op = "recompute" /\ last'.again) =>
       (predictions' = predictions /\ last'.count = last.count)]_vars

\* the second of two passes in a row, over a prediction that scores
C2_Witness ==
  /\ last.op = "recompute"
  /\ last.again
  /\ last.count > 0
  /\ \E p \in predictions : Scoreable(p, last.week) /\ p.points_earned = 1

WithoutPoints(p) ==
  [id |-> p.id, player_id |-> p.player_id, match_id |-> p.match_id,
   prediction |-> p.prediction]

\* C3: calculate_points_for_gameweek(w) changes nothing but the points of the
\* predictions it evaluates: players, matches, the predictions' player, match and
\* choice, and the points of every prediction outside game week w or without a
\* result stay as they were
C3_RecomputeFrame ==
  [][last'.op = "recompute" =>
       /\ players' = players
       /\ matches' = matches
       /\ nextMatchId' = nextMatchId /\ nextPredId' = nextPredId
       /\ Cardinality(predictions') = Cardinality(predictions)
       /\ {WithoutPoints(p) : p \in predictions'} = {WithoutPoints(p) : p \in predictions}
       /\ \A p \in predictions : ~Scoreable(p, last'.week) => p \in predictions']_vars

\* a pass that left alone a prediction of the other week that a pass of that week
\* would score 1
C3_Witness ==
  /\ last.op = "recompute"
  /\ \E p \in predictions :
       /\ HasMatch(p) /\ MatchOf(p).game_week # last.week
       /\ MatchOf(p).result = p.prediction
       /\ p.points_earned = 0

PlayerNamed(name) == CHOOSE pl \in players : pl.name = name

\* the predictions of a player on matches of a game week
PredictionsInWeek(player_id, game_week) ==
  {p \in predictions : /\ p.player_id = player_id
                       /\ HasMatch(p) /\ MatchOf(p).game_week = game_week}

\* C4: the weekly total get_weekly_results(w) returns for a player is the number of
\* that player's predictions on matches of game week w whose result is known and
\* equals the choice
C4_WeeklyReflectsResults ==
  last.op = "weekly" =>
    \A i \in 1..Len(last.weekly) :
      last.weekly[i].points =
        Cardinality({p \in PredictionsInWeek(PlayerNamed(last.weekly[i].player_name).id, last.week) :
                       MatchOf(p).result # Null /\ p.prediction = MatchOf(p).result})

RowNames(list) == {list[i].player_name : i \in 1..Len(list)}

\* C5: the weekly list of get_weekly_results(w) has exactly one row per player, a
\* player without a prediction in game week w having 0 points
C5_WeeklyListsEveryPlayer ==
  last.op = "weekly" =>
    /\ Len(last.weekly) = Cardinality(players)
    /\ RowNames(last.weekly) = {pl.name : pl \in players}
    /\ \A i \in 1..Len(last.weekly) :
         PredictionsInWeek(PlayerNamed(last.weekly[i].player_name).id, last.week) = {}
           => last.weekly[i].points = 0

\* C6: with every match in game weeks 1..38 and the points of all weeks refreshed (the
\* state leaderboard() leaves), the cumulative list of get_weekly_results(38) is the
\* list get_overall_leaderboard() returned: same players, totals and order
C6_CumulativeFinalIsOverall ==
  (last.op = "leaderboard" /\ \A m \in matches : m.game_week \in 1..LastWeek) =>
    CumulativeQuery(players, CalculatePoints(predictions, matches, LastWeek), matches, LastWeek)
      = last.results

\* a leaderboard with a point scored in the final game week
C6_Witness ==
  /\ last.op = "leaderboard"
  /\ \E p \in predictions : Scoreable(p, LastWeek) /\ p.points_earned = 1
  /\ last.results[1].points > 0

\* adjacent rows: points non-increasing, equal points in ascending name order
Ordered(list) ==
  \A i \in 1..(Len(list) - 1) :
    \/ list[i].points > list[i + 1].points
    \/ /\ list[i].points = list[i + 1].points
       /\ NameLess(list[i].player_name, list[i + 1].player_name)

\* C7: the weekly, cumulative and overall lists are ordered by points descending,
\* equal points by player name ascending
C7_StandingsOrdered ==
  /\ last.op = "weekly" => Ordered(last.weekly) /\ Ordered(last.cumulative)
  /\ last.op = "leaderboard" => Ordered(last.results)

\* a cumulative list of all players, led on points by a name that sorts after the
\* second, the second and third tied
C7_Witness ==
  /\ last.op = "weekly"
  /\ Len(last.cumulative) = Cardinality(players)
  /\ last.cumulative[1].points > last.cumulative[2].points
  /\ NameLess(last.cumulative[2].player_name, last.cumulative[1].player_name)
  /\ last.cumulative[2].points = last.cumulative[3].points

\* C8: a prediction whose match has no result has 0 points
C8_NoResultNoPoints ==
  \A p \in predictions :
    (HasMatch(p) /\ MatchOf(p).result = Null) => p.points_earned = 0

\* C9: there is one prediction per (player, match) at most, its choice is the one
\* submitted last for the pair, and a submission for pairs that already have a
\* prediction succeeds
C9_OnePredictionPerPair ==
  /\ \A p \in predictions : \A q \in predictions :
       (p.player_id = q.player_id /\ p.match_id = q.match_id) => p = q
  /\ \A p \in predictions :
       /\ <<p.player_id, p.match_id>> \in DOMAIN submitted
       /\ p.prediction = submitted[<<p.player_id, p.match_id>>]
  /\ \A k \in DOMAIN submitted : HasRow(predictions, k)
  /\ (last.op = "submit" /\ last.repeat) => last.ok

\* a submission that replaced an earlier, different choice
C9_Witness ==
  /\ last.op = "submit"
  /\ last.repeat /\ last.changed /\ last.ok
  /\ Cardinality(predictions) = 1

\* C10: a scoring pass of game week w and a submission for a match of week w have
\* both completed, the pass's read, updates and commit interleaved with the
\* submission's statements and commit: the submitted prediction's points are 1 if the
\* choice committed last equals the match's result, 0 otherwise
C10_ConcurrentPointsReflectLast ==
  (rc.pc = "done" /\ sb.pc = "done" /\ (rc.overlap \/ sb.overlap)) =>
    \A p \in predictions :
      (/\ <<p.player_id, p.match_id>> \in FormPairs(sb.player_id, sb.whole)
       /\ Scoreable(p, rc.week)) =>
        p.points_earned = (IF submitted[<<p.player_id, p.match_id>>] = MatchOf(p).result
                           THEN 1 ELSE 0)

\* C11: a scoring pass or a standings request for a game week outside 1..38 does not
\* return: whenever calculate_points_for_gameweek has returned a count, or
\* get_weekly_results the two lists, the game week asked for was within 1..38
C11_WeekOutOfRangeRejected ==
  last.op \in {"recompute", "weekly"} => last.week \in 1..LastWeek

\* C12: every operation that has ended closed every connection it opened, whatever
\* the path it took: the page, the redirect of an unknown player, or an error
C12_ConnectionsReleased ==
  last.op # "init" => last.closed = last.opened

\* C13: save_matches_to_db over fixtures that are stored already updates their matches
\* in place, on either backend: afterwards there is one match per api_match_id, every
\* match stored before is there with the id and the game week it had, and every
\* prediction that was joined to a match is joined to it still (so that the next
\* scoring pass of the week evaluates it)
C13_ReingestInPlace ==
  [][(last'.op = "ingest" /\ last'.ok) =>
       /\ \A m \in matches' : \A n \in matches' : m.api_match_id = n.api_match_id => m = n
       /\ \A m \in matches : \E n \in matches' :
            /\ n.api_match_id = m.api_match_id
            /\ n.id = m.id
            /\ n.game_week = m.game_week
       /\ \A p \in predictions' :
            (\E m \in matches : m.id = p.match_id) => (\E n \in matches' : n.id = p.match_id)]_vars
====
